---------------------------- MODULE Spec2Model ----------------------------
(***************************************************************************)
(* Verification model of the concurrency core of swupdate:                 *)
(*   - the asynchronous IPC session (swupdate_async_start and its worker   *)
(*     thread swupdate_async_thread, swupdate_set_aes),                    *)
(*   - the pipe handler (pipe_image / pipe_poll_process),                  *)
(*   - the mkswu exclusivity lock (mkswu_lock / mkswu_unlock).             *)
(* Each part has its own specification over its own variables; the other   *)
(* parts' variables stay at their initial values.                          *)
(***************************************************************************)
EXTENDS Integers, Sequences, FiniteSets, TLC

(***************************************************************************)
(* Bounds of the model.                                                    *)
(***************************************************************************)
\* calls of swupdate_async_start the application makes
MaxCalls == 2
\* non-empty chunks the producer callback returns before its zero-length chunk
MaxChunks == 2
\* largest chunk length the producer returns
MaxLen == 2
\* notifications the updater sends during one session
MaxNotes == 1
\* how far from 32 and 64 the lengths given to swupdate_set_aes go
AesSlack == 1
\* chunks of the image piped into the subprocess
MaxImage == 2
\* lines the subprocess writes to stdout, and to stderr
MaxLines == 2
MaxErrLines == 1
\* chunks the subprocess' stdin pipe holds
StdinCap == 1
\* processes that use the mkswu lock
NumProcs == 2
\* files the example client is given
MaxFiles == 2

(***************************************************************************)
(* Program constants.                                                      *)
(***************************************************************************)
EBUSY == 16
EINVAL == 22
AES_KEY_LEN == 64
AES_IVT_LEN == 32
EFAULT == 14
EINTR == 4
ECHILD == 10
EAGAIN == 11
EWOULDBLOCK == 11
\* stands for every errno that is neither EAGAIN nor EINTR
EIO == 5

ASYNC_THREAD_INIT == "ASYNC_THREAD_INIT"
ASYNC_THREAD_RUNNING == "ASYNC_THREAD_RUNNING"
ASYNC_THREAD_DONE == "ASYNC_THREAD_DONE"

\* RECOVERY_STATUS values the session looks at
RUN == "RUN"
IDLE == "IDLE"
SUCCESS == "SUCCESS"
FAILURE == "FAILURE"

\* stands for the indeterminate value of int size before its first assignment
\* the exit codes of send_file
EXIT_SUCCESS == 0
EXIT_FAILURE == 1

UNINIT == -1
\* a return value is <<v>>; <<>> while the call has not returned
NoRet == <<>>
\* the switch has read nothing yet
NoState == "none"

(***************************************************************************)
(* State of the asynchronous session (network_ipc-if).                     *)
(***************************************************************************)
VARIABLES
    running,          \* static enum async_thread_state running
    async_thread_id,  \* static pthread_t async_thread_id (0: never set)
    rq,               \* static struct async_lib request
    apc,              \* position of the application thread in swupdate_async_start
    aseen,            \* value of running the last call's switch read
    aret,             \* return value of the last swupdate_async_start call
    ncalls,           \* calls of swupdate_async_start made so far
    wpc,              \* position of each worker thread in swupdate_async_thread
    size,             \* the worker's local int size
    status,           \* the worker's msg.data.notify.status
    openData,         \* data connections (connfd) that are open
    openNotify,       \* notification connections (notify_fd) that are open
    produced,         \* chunk lengths the producer returned in this session
    written,          \* bytes written to the data connection in this session
    received,         \* notifications received in this session
    forwarded,        \* notifications handed to the status callback
    endLog,           \* results handed to the terminator callback
    failed            \* a fatal error sent the worker to out:

asyncVars == <<running, async_thread_id, rq, apc, aseen, aret, ncalls, wpc,
               size, status, openData, openNotify, produced, written,
               received, forwarded, endLog, failed>>

Threads == 1..MaxCalls

\* the bytes of the k-th chunk, of length n: n copies of k
ChunkBytes(k, n) == [i \in 1..n |-> k]

RECURSIVE Flatten(_, _)
\* the concatenation of the chunks whose lengths are sizes[k..]
Flatten(sizes, k) ==
    IF k > Len(sizes) THEN <<>>
    ELSE ChunkBytes(k, sizes[k]) \o Flatten(sizes, k + 1)

AsyncInit ==
    /\ running = ASYNC_THREAD_INIT
    /\ async_thread_id = 0
    /\ rq = [connfd |-> 0, wr |-> FALSE, get |-> FALSE, end |-> FALSE]
    /\ apc = "idle"
    /\ aseen = NoState
    /\ aret = NoRet
    /\ ncalls = 0
    /\ wpc = [t \in Threads |-> "none"]
    /\ size = [t \in Threads |-> UNINIT]
    /\ status = [t \in Threads |-> RUN]
    /\ openData = {}
    /\ openNotify = {}
    /\ produced = <<>>
    /\ written = <<>>
    /\ received = <<>>
    /\ forwarded = <<>>
    /\ endLog = <<>>
    /\ failed = FALSE

\* a worker thread exists from pthread_create until pthread_exit
Alive(t) == wpc[t] \notin {"none", "exited", "joined"}

\* what the worker leaves unchanged in every step
WorkerFrame == UNCHANGED <<async_thread_id, rq, apc, aseen, aret, ncalls>>

----------------------------------------------------------------------------
(***************************************************************************)
(* swupdate_async_start, run by the application thread.                    *)
(***************************************************************************)

\* (mutation of SwitchTarget: the default case is missing)
SwitchTargetNoBusy(state) ==
    IF state = ASYNC_THREAD_DONE THEN "join" ELSE "connect"

\* (mutation of SwitchTarget: a finished session is busy too)
SwitchTargetDoneBusy(state) ==
    IF state = ASYNC_THREAD_INIT THEN "connect" ELSE "busy"

\* where the switch on running sends the call
SwitchTarget(state) ==
    CASE state = ASYNC_THREAD_INIT -> "connect"
      [] state = ASYNC_THREAD_DONE -> "join"
      [] OTHER -> "busy"

\* switch (running): INIT goes on, DONE joins first, anything else is -EBUSY
StartSwitch ==
    /\ apc = "idle"
    /\ ncalls < MaxCalls
    /\ ncalls' = ncalls + 1
    /\ aseen' = running
    /\ IF SwitchTarget(running) = "busy"
       THEN /\ aret' = <<-EBUSY>>
            /\ apc' = "idle"
       ELSE /\ aret' = NoRet
            /\ apc' = SwitchTarget(running)
    /\ UNCHANGED <<running, async_thread_id, rq, wpc, size, status, openData,
                   openNotify, produced, written, received, forwarded, endLog,
                   failed>>

\* (mutation of JoinReady: the join does not wait for the thread)
JoinReadyNoWait(t) == wpc[t] # "none"

\* pthread_join(async_thread_id) returns once that thread has exited
JoinReady(t) == wpc[t] = "exited"

\* case ASYNC_THREAD_DONE: pthread_join, then running = ASYNC_THREAD_INIT
StartJoin ==
    /\ apc = "join"
    /\ async_thread_id \in Threads
    /\ JoinReady(async_thread_id)
    /\ wpc' = [wpc EXCEPT ![async_thread_id] =
                   IF @ = "exited" THEN "joined" ELSE @]
    /\ running' = ASYNC_THREAD_INIT
    /\ apc' = "connect"
    /\ UNCHANGED <<async_thread_id, rq, aseen, aret, ncalls, size, status,
                   openData, openNotify, produced, written, received,
                   forwarded, endLog, failed>>

\* rq->wr, rq->get, rq->end set; ipc_inst_start_ext opens the data connection
StartConnect ==
    /\ apc = "connect"
    /\ \E w \in BOOLEAN, g \in BOOLEAN, e \in BOOLEAN, ok \in BOOLEAN :
         IF ok
         THEN /\ rq' = [connfd |-> ncalls, wr |-> w, get |-> g, end |-> e]
              /\ openData' = openData \cup {ncalls}
              /\ apc' = "create"
              /\ aret' = aret
         ELSE /\ rq' = [rq EXCEPT !.wr = w, !.get = g, !.end = e]
              /\ openData' = openData
              /\ apc' = "idle"
              /\ aret' = <<-1>>
    /\ UNCHANGED <<running, async_thread_id, aseen, ncalls, wpc, size, status,
                   openNotify, produced, written, received, forwarded, endLog,
                   failed>>

\* start_ipc_thread: pthread_create; on failure it returns without a thread
StartCreate ==
    /\ apc = "create"
    /\ \E ok \in BOOLEAN :
         IF ok
         THEN /\ async_thread_id' = ncalls
              /\ wpc' = [wpc EXCEPT ![ncalls] = "sigmask"]
              /\ size' = [size EXCEPT ![ncalls] = UNINIT]
              /\ status' = [status EXCEPT ![ncalls] = RUN]
              /\ produced' = <<>>
              /\ written' = <<>>
              /\ received' = <<>>
              /\ forwarded' = <<>>
              /\ endLog' = <<>>
              /\ failed' = FALSE
              /\ apc' = "set_running"
         ELSE /\ apc' = "return"
              /\ UNCHANGED <<async_thread_id, wpc, size, status, produced,
                             written, received, forwarded, endLog, failed>>
    /\ UNCHANGED <<running, rq, aseen, aret, ncalls, openData, openNotify>>

\* start_ipc_thread: running = ASYNC_THREAD_RUNNING, after pthread_create
StartSetRunning ==
    /\ apc = "set_running"
    /\ running' = ASYNC_THREAD_RUNNING
    /\ apc' = "return"
    /\ UNCHANGED <<async_thread_id, rq, aseen, aret, ncalls, wpc, size, status,
                   openData, openNotify, produced, written, received,
                   forwarded, endLog, failed>>

\* return running != ASYNC_THREAD_INIT
StartReturn ==
    /\ apc = "return"
    /\ aret' = <<IF running # ASYNC_THREAD_INIT THEN 1 ELSE 0>>
    /\ apc' = "idle"
    /\ UNCHANGED <<running, async_thread_id, rq, aseen, ncalls, wpc, size,
                   status, openData, openNotify, produced, written, received,
                   forwarded, endLog, failed>>

----------------------------------------------------------------------------
(***************************************************************************)
(* swupdate_async_thread, run by worker thread t.                          *)
(***************************************************************************)

\* (mutation of GotoOut: after a fatal error the write loop goes on)
GotoLoopTop(t) ==
    /\ wpc' = [wpc EXCEPT ![t] = "loop_top"]
    /\ failed' = TRUE

\* goto out after a fatal error
GotoOut(t) ==
    /\ wpc' = [wpc EXCEPT ![t] = "out"]
    /\ failed' = TRUE

\* pthread_sigmask(SIG_BLOCK): on failure status = FAILURE and goto out
WorkerSigmask(t) ==
    /\ wpc[t] = "sigmask"
    /\ \E ok \in BOOLEAN :
         IF ok
         THEN /\ wpc' = [wpc EXCEPT ![t] = "notify_connect"]
              /\ UNCHANGED <<status, failed>>
         ELSE /\ status' = [status EXCEPT ![t] = FAILURE]
              /\ GotoOut(t)
    /\ UNCHANGED <<running, size, openData, openNotify, produced, written,
                   received, forwarded, endLog>>
    /\ WorkerFrame

\* notify_fd = ipc_notify_connect(): on failure goto out
WorkerNotifyConnect(t) ==
    /\ wpc[t] = "notify_connect"
    /\ \E ok \in BOOLEAN :
         IF ok
         THEN /\ openNotify' = openNotify \cup {t}
              /\ wpc' = [wpc EXCEPT ![t] = "loop_top"]
              /\ UNCHANGED failed
         ELSE /\ GotoOut(t)
              /\ UNCHANGED openNotify
    /\ UNCHANGED <<running, size, status, openData, produced, written,
                   received, forwarded, endLog>>
    /\ WorkerFrame

\* top of the do loop: if (!rq->wr) break
WorkerLoopTop(t) ==
    /\ wpc[t] = "loop_top"
    /\ wpc' = [wpc EXCEPT ![t] = IF rq.wr THEN "select" ELSE "close_data"]
    /\ UNCHANGED <<running, size, status, openData, openNotify, produced,
                   written, received, forwarded, endLog, failed>>
    /\ WorkerFrame

\* select() was interrupted: continue, which jumps to the while condition
WorkerSelectEintr(t) ==
    /\ wpc[t] = "select"
    /\ wpc' = [wpc EXCEPT ![t] = "loop_cond"]
    /\ UNCHANGED <<running, size, status, openData, openNotify, produced,
                   written, received, forwarded, endLog, failed>>
    /\ WorkerFrame

\* select() failed with another error: goto out
WorkerSelectFail(t) ==
    /\ wpc[t] = "select"
    /\ GotoOut(t)
    /\ UNCHANGED <<running, size, status, openData, openNotify, produced,
                   written, received, forwarded, endLog>>
    /\ WorkerFrame

\* select() returned with the data connection writable or not; when it is not,
\* the notification connection was readable
WorkerSelectReady(t) ==
    /\ wpc[t] = "select"
    /\ \E writable \in BOOLEAN :
         wpc' = [wpc EXCEPT ![t] = IF writable THEN "produce" ELSE "recv"]
    /\ UNCHANGED <<running, size, status, openData, openNotify, produced,
                   written, received, forwarded, endLog, failed>>
    /\ WorkerFrame

\* the lengths the producer may return on its next call
ProducerSizes == IF Len(produced) < MaxChunks THEN 0..MaxLen ELSE {0}

\* the bytes appended to the data connection by a write of n bytes of the
\* current chunk
WriteBytes(n) == written \o ChunkBytes(Len(produced) + 1, n)

\* rq->wr(&pbuf, &size); if (size) swupdate_image_write(pbuf, size) != size is
\* fatal.  sent is what ipc_send_data reported written.
WorkerProduce(t) ==
    /\ wpc[t] = "produce"
    /\ \E n \in ProducerSizes :
         /\ size' = [size EXCEPT ![t] = n]
         /\ produced' = Append(produced, n)
         /\ IF n = 0
            THEN /\ written' = written
                 /\ wpc' = [wpc EXCEPT ![t] = "recv"]
                 /\ UNCHANGED failed
            ELSE \E sent \in 0..n :
                   /\ written' = WriteBytes(sent)
                   /\ IF sent # n
                      THEN GotoOut(t)
                      ELSE /\ wpc' = [wpc EXCEPT ![t] = "recv"]
                           /\ UNCHANGED failed
    /\ UNCHANGED <<running, status, openData, openNotify, received, forwarded,
                   endLog>>
    /\ WorkerFrame

\* the phases a notification received now may carry
NoteStatuses == IF Len(received) < MaxNotes THEN {RUN, IDLE} ELSE {IDLE}

\* (mutation of Deliver: the notification is not handed to rq->get)
DeliverUnforwarded(t, s) ==
    /\ status' = [status EXCEPT ![t] = s]
    /\ received' = Append(received, s)
    /\ forwarded' = forwarded

\* a received notification is stored in msg and handed to rq->get if set
Deliver(t, s) ==
    /\ status' = [status EXCEPT ![t] = s]
    /\ received' = Append(received, s)
    /\ forwarded' = IF rq.get THEN Append(forwarded, s) ELSE forwarded

\* ipc_notify_receive(&notify_fd, &msg, 0) in the write phase: a message,
\* -ETIMEDOUT (leave the inner loop) or an error (goto out)
WorkerRecv(t) ==
    /\ wpc[t] = "recv"
    /\ \/ /\ Len(received) < MaxNotes
          /\ \E s \in NoteStatuses : Deliver(t, s)
          /\ UNCHANGED <<wpc, failed>>
       \/ /\ wpc' = [wpc EXCEPT ![t] = "loop_cond"]
          /\ UNCHANGED <<status, received, forwarded, failed>>
       \/ /\ GotoOut(t)
          /\ UNCHANGED <<status, received, forwarded>>
    /\ UNCHANGED <<running, size, openData, openNotify, produced, written,
                   endLog>>
    /\ WorkerFrame

\* the outcomes of evaluating size > 0: size is read uninitialized when no
\* producer call has assigned it yet, and then either outcome is possible
SizePositive(sz) == IF sz = UNINIT THEN BOOLEAN ELSE {sz > 0}

\* } while (size > 0);
WorkerLoopCond(t) ==
    /\ wpc[t] = "loop_cond"
    /\ \E again \in SizePositive(size[t]) :
         wpc' = [wpc EXCEPT ![t] = IF again THEN "loop_top" ELSE "close_data"]
    /\ UNCHANGED <<running, size, status, openData, openNotify, produced,
                   written, received, forwarded, endLog, failed>>
    /\ WorkerFrame

\* ipc_end(rq->connfd) after the write loop
WorkerCloseData(t) ==
    /\ wpc[t] = "close_data"
    /\ openData' = openData \ {rq.connfd}
    /\ wpc' = [wpc EXCEPT ![t] = "drain"]
    /\ UNCHANGED <<running, size, status, openNotify, produced, written,
                   received, forwarded, endLog, failed>>
    /\ WorkerFrame

\* (mutation of DrainDone: the drain loop is not entered)
DrainDoneAlways(t) == TRUE

\* the drain loop goes on while msg.data.notify.status != IDLE
DrainDone(t) == status[t] = IDLE

\* while (status != IDLE) ipc_notify_receive(&notify_fd, &msg, -1): a message,
\* or an error (goto out)
WorkerDrain(t) ==
    /\ wpc[t] = "drain"
    /\ ~DrainDone(t)
    /\ \/ /\ \E s \in NoteStatuses : Deliver(t, s)
          /\ UNCHANGED <<wpc, failed>>
       \/ /\ GotoOut(t)
          /\ UNCHANGED <<status, received, forwarded>>
    /\ UNCHANGED <<running, size, openData, openNotify, produced, written,
                   endLog>>
    /\ WorkerFrame

\* ipc_end(notify_fd) once the drain loop is over
WorkerCloseNotify(t) ==
    /\ wpc[t] = "drain"
    /\ DrainDone(t)
    /\ openNotify' = openNotify \ {t}
    /\ wpc' = [wpc EXCEPT ![t] = "restore_mask"]
    /\ UNCHANGED <<running, size, status, openData, produced, written,
                   received, forwarded, endLog, failed>>
    /\ WorkerFrame

\* pthread_sigmask(SIG_SETMASK, &saved_mask): on failure status = FAILURE;
\* both ways the thread arrives at out:
WorkerRestoreMask(t) ==
    /\ wpc[t] = "restore_mask"
    /\ \E ok \in BOOLEAN :
         IF ok
         THEN /\ wpc' = [wpc EXCEPT ![t] = "out"]
              /\ UNCHANGED <<status, failed>>
         ELSE /\ status' = [status EXCEPT ![t] = FAILURE]
              /\ GotoOut(t)
    /\ UNCHANGED <<running, size, openData, openNotify, produced, written,
                   received, forwarded, endLog>>
    /\ WorkerFrame

\* (mutation of WorkerOut: running is left as it is)
WorkerOutKeepsState(t) ==
    /\ wpc[t] = "out"
    /\ wpc' = [wpc EXCEPT ![t] = IF rq.end THEN "get_status" ELSE "exit"]
    /\ UNCHANGED <<running, size, status, openData, openNotify, produced,
                   written, received, forwarded, endLog, failed>>
    /\ WorkerFrame

\* out: running = ASYNC_THREAD_DONE; if (rq->end) query the status
WorkerOut(t) ==
    /\ wpc[t] = "out"
    /\ running' = ASYNC_THREAD_DONE
    /\ wpc' = [wpc EXCEPT ![t] = IF rq.end THEN "get_status" ELSE "exit"]
    /\ UNCHANGED <<size, status, openData, openNotify, produced, written,
                   received, forwarded, endLog, failed>>
    /\ WorkerFrame

\* ret = ipc_get_status(&msg): on failure goto out, else go on to rq->end
WorkerGetStatus(t) ==
    /\ wpc[t] = "get_status"
    /\ \E ok \in BOOLEAN :
         wpc' = [wpc EXCEPT ![t] = IF ok THEN "end" ELSE "out"]
    /\ UNCHANGED <<running, size, status, openData, openNotify, produced,
                   written, received, forwarded, endLog, failed>>
    /\ WorkerFrame

\* rq->end(msg.data.status.last_result), with the result the query returned
WorkerEnd(t) ==
    /\ wpc[t] = "end"
    /\ \E r \in {SUCCESS, FAILURE} : endLog' = Append(endLog, r)
    /\ wpc' = [wpc EXCEPT ![t] = "exit"]
    /\ UNCHANGED <<running, size, status, openData, openNotify, produced,
                   written, received, forwarded, failed>>
    /\ WorkerFrame

\* pthread_exit: the thread and its automatic variables are gone; the record
\* of what the session did ends with it
WorkerExit(t) ==
    /\ wpc[t] = "exit"
    /\ wpc' = [wpc EXCEPT ![t] = "exited"]
    /\ size' = [size EXCEPT ![t] = UNINIT]
    /\ status' = [status EXCEPT ![t] = RUN]
    /\ produced' = <<>>
    /\ written' = <<>>
    /\ received' = <<>>
    /\ forwarded' = <<>>
    /\ endLog' = <<>>
    /\ failed' = FALSE
    /\ UNCHANGED <<running, openData, openNotify>>
    /\ WorkerFrame

WorkerStep(t) ==
    \/ WorkerSigmask(t)
    \/ WorkerNotifyConnect(t)
    \/ WorkerLoopTop(t)
    \/ WorkerSelectEintr(t)
    \/ WorkerSelectFail(t)
    \/ WorkerSelectReady(t)
    \/ WorkerProduce(t)
    \/ WorkerRecv(t)
    \/ WorkerLoopCond(t)
    \/ WorkerCloseData(t)
    \/ WorkerDrain(t)
    \/ WorkerCloseNotify(t)
    \/ WorkerRestoreMask(t)
    \/ WorkerOut(t)
    \/ WorkerGetStatus(t)
    \/ WorkerEnd(t)
    \/ WorkerExit(t)

----------------------------------------------------------------------------
(***************************************************************************)
(* swupdate_set_aes.  A string argument is <<n>>, n its strlen; NULL is    *)
(* <<>>.                                                                   *)
(***************************************************************************)
VARIABLES
    aesKey,    \* char *key
    aesIvt,    \* char *ivt
    aesPc,     \* "off", "call" (before the call) or "done" (it returned)
    aesRet,    \* return value of swupdate_set_aes
    aesSent    \* types of the messages handed to ipc_send_cmd

aesVars == <<aesKey, aesIvt, aesPc, aesRet, aesSent>>

\* the other specifications leave swupdate_set_aes uncalled
AesOff ==
    /\ aesKey = <<>>
    /\ aesIvt = <<>>
    /\ aesPc = "off"
    /\ aesRet = NoRet
    /\ aesSent = <<>>

\* string lengths tried: 0 and the lengths within AesSlack of the two fixed ones
AesLengths ==
    {0} \cup ((AES_IVT_LEN - AesSlack)..(AES_IVT_LEN + AesSlack))
        \cup ((AES_KEY_LEN - AesSlack)..(AES_KEY_LEN + AesSlack))

AesArgs == {<<>>} \cup {<<n>> : n \in AesLengths}

AesInit ==
    /\ aesKey \in AesArgs
    /\ aesIvt \in AesArgs
    /\ aesPc = "call"
    /\ aesRet = NoRet
    /\ aesSent = <<>>

\* if (!key || !ivt) return -EINVAL;
AesArgMissing(key, ivt) == key = <<>> \/ ivt = <<>>

\* if (strlen(key) != 64 && strlen(ivt) != 32) return -EINVAL;
AesLengthRejected(key, ivt) ==
    key[1] # AES_KEY_LEN /\ ivt[1] # AES_IVT_LEN

\* swupdate_set_aes(key, ivt): -EINVAL, or the result of ipc_send_cmd
SetAes ==
    /\ aesPc = "call"
    /\ aesPc' = "done"
    /\ IF AesArgMissing(aesKey, aesIvt)
       THEN aesRet' = <<-EINVAL>> /\ aesSent' = aesSent
       ELSE IF AesLengthRejected(aesKey, aesIvt)
       THEN aesRet' = <<-EINVAL>> /\ aesSent' = aesSent
       ELSE /\ aesSent' = Append(aesSent, "SET_AES_KEY")
            /\ \E r \in {0, -1} : aesRet' = <<r>>
    /\ UNCHANGED <<aesKey, aesIvt>>

----------------------------------------------------------------------------
(***************************************************************************)
(* The pipe handler: pipe_image, pipe_copy_callback, pipe_poll_process and *)
(* the subprocess they supervise.  A byte of a stream is a number: k > 0   *)
(* is the text of line k, 0 is the newline that ends a line.               *)
(***************************************************************************)
VARIABLES
    ppc,         \* position of the handler
    pfds,        \* pipe ends open in the handler's process
    privPid,     \* priv.pid: "child", or -1 after a failed fork
    privStatus,  \* priv.status
    pwrite,      \* the write argument of the running pipe_poll_process
    psel,        \* fds select() reported ready: subset of {"out", "err", "in"}
    pn,          \* int n of the current loop iteration
    chunksLeft,  \* chunks of the image copyimage has still to hand over
    copyRet,     \* ret after copyimage
    pret,        \* return value of pipe_image
    stdoutBuf,   \* priv.stdout_buf[0 .. stdout_index)
    stderrBuf,   \* priv.stderr_buf[0 .. stderr_index)
    traceLog,    \* lines logged at TRACELEVEL
    errorLog,    \* lines logged at ERRORLEVEL from the subprocess' stderr
    stdinPipe,   \* chunks written to the subprocess' stdin and not yet read
    stdoutPipe,  \* bytes written to its stdout and not yet read
    stderrPipe,  \* bytes written to its stderr and not yet read
    cpc,         \* the subprocess: "none", "running", "exited" (zombie), "reaped"
    cOut,        \* bytes the subprocess has still to write to stdout
    cErr,        \* bytes the subprocess has still to write to stderr
    cStatus,     \* how the subprocess ends: exit code or signal
    cConsume,    \* the subprocess reads its stdin to the end before it exits
    cLines,      \* lines the subprocess' command writes to stdout in all
    ioError      \* a system call failed for a reason outside the handler

pipeVars == <<ppc, pfds, privPid, privStatus, pwrite, psel, pn, chunksLeft,
              copyRet, pret, stdoutBuf, stderrBuf, traceLog, errorLog,
              stdinPipe, stdoutPipe, stderrPipe, cpc, cOut, cErr, cStatus,
              cConsume, cLines, ioError>>

\* the bytes of line k
LineBytes(k) == <<k, 0>>

RECURSIVE LinesBytes(_, _)
\* the bytes of lines k .. n
LinesBytes(k, n) ==
    IF k > n THEN <<>> ELSE LineBytes(k) \o LinesBytes(k + 1, n)

\* how a subprocess may end: exit(0), exit(7), or killed by a signal
ChildStatuses ==
    {[exited |-> TRUE, code |-> 0], [exited |-> TRUE, code |-> 7],
     [exited |-> FALSE, code |-> 9]}

PipeOff ==
    /\ ppc = "off"
    /\ pfds = {}
    /\ privPid = "none"
    /\ privStatus = -1
    /\ pwrite = FALSE
    /\ psel = {}
    /\ pn = 0
    /\ chunksLeft = 0
    /\ copyRet = NoRet
    /\ pret = NoRet
    /\ stdoutBuf = <<>>
    /\ stderrBuf = <<>>
    /\ traceLog = <<>>
    /\ errorLog = <<>>
    /\ stdinPipe = 0
    /\ stdoutPipe = <<>>
    /\ stderrPipe = <<>>
    /\ cpc = "none"
    /\ cOut = <<>>
    /\ cErr = <<>>
    /\ cStatus = [exited |-> TRUE, code |-> 0]
    /\ cConsume = FALSE
    /\ cLines = 0
    /\ ioError = FALSE

\* pipe_image is entered with struct pipe_priv priv = { .status = -1 }; the
\* command and the image are the inputs
PipeInit ==
    /\ ppc = "pipes"
    /\ pfds = {}
    /\ privPid = "none"
    /\ privStatus = -1
    /\ pwrite = FALSE
    /\ psel = {}
    /\ pn = 0
    /\ chunksLeft \in 0..MaxImage
    /\ copyRet = NoRet
    /\ pret = NoRet
    /\ stdoutBuf = <<>>
    /\ stderrBuf = <<>>
    /\ traceLog = <<>>
    /\ errorLog = <<>>
    /\ stdinPipe = 0
    /\ stdoutPipe = <<>>
    /\ stderrPipe = <<>>
    /\ cpc = "none"
    /\ cLines \in 0..MaxLines
    /\ cOut = LinesBytes(1, cLines)
    /\ \E n \in 0..MaxErrLines : cErr = LinesBytes(1, n)
    /\ cStatus \in ChildStatuses
    /\ cConsume \in BOOLEAN
    /\ ioError = FALSE

\* the subprocess holds the other ends of the pipes while it runs
ChildRuns == cpc = "running"

\* the subprocess writes the next one or two bytes of its stdout
ChildWriteOut ==
    /\ ChildRuns
    /\ ppc # "done"
    /\ cOut # <<>>
    /\ \E j \in 1..2 :
         /\ j <= Len(cOut)
         /\ stdoutPipe' = stdoutPipe \o SubSeq(cOut, 1, j)
         /\ cOut' = SubSeq(cOut, j + 1, Len(cOut))
    /\ UNCHANGED <<ppc, pfds, privPid, privStatus, pwrite, psel, pn,
                   chunksLeft, copyRet, pret, stdoutBuf, stderrBuf, traceLog,
                   errorLog, stdinPipe, stderrPipe, cpc, cErr, cStatus,
                   cConsume, cLines, ioError>>

\* the subprocess writes the next one or two bytes of its stderr
ChildWriteErr ==
    /\ ChildRuns
    /\ ppc # "done"
    /\ cErr # <<>>
    /\ \E j \in 1..2 :
         /\ j <= Len(cErr)
         /\ stderrPipe' = stderrPipe \o SubSeq(cErr, 1, j)
         /\ cErr' = SubSeq(cErr, j + 1, Len(cErr))
    /\ UNCHANGED <<ppc, pfds, privPid, privStatus, pwrite, psel, pn,
                   chunksLeft, copyRet, pret, stdoutBuf, stderrBuf, traceLog,
                   errorLog, stdinPipe, stdoutPipe, cpc, cOut, cStatus,
                   cConsume, cLines, ioError>>

\* the subprocess reads a chunk from its stdin
ChildRead ==
    /\ ChildRuns
    /\ cConsume
    /\ stdinPipe > 0
    /\ stdinPipe' = stdinPipe - 1
    /\ UNCHANGED <<ppc, pfds, privPid, privStatus, pwrite, psel, pn,
                   chunksLeft, copyRet, pret, stdoutBuf, stderrBuf, traceLog,
                   errorLog, stdoutPipe, stderrPipe, cpc, cOut, cErr, cStatus,
                   cConsume, cLines, ioError>>

\* the subprocess ends once it has written its output and, when it consumes
\* its stdin, has read it to the end (the handler closed the write end)
ChildExit ==
    /\ ChildRuns
    /\ cOut = <<>>
    /\ cErr = <<>>
    /\ cConsume => (stdinPipe = 0 /\ "in1" \notin pfds)
    /\ cpc' = "exited"
    /\ UNCHANGED <<ppc, pfds, privPid, privStatus, pwrite, psel, pn,
                   chunksLeft, copyRet, pret, stdoutBuf, stderrBuf, traceLog,
                   errorLog, stdinPipe, stdoutPipe, stderrPipe, cOut, cErr,
                   cStatus, cConsume, cLines, ioError>>

\* what the subprocess leaves unchanged when the handler steps
ChildFrame == UNCHANGED <<cOut, cErr, cStatus, cConsume, cLines>>

\* the pipe ends made by the first k calls of pipe()
PipeEnds(k) ==
    (IF k >= 1 THEN {"in0", "in1"} ELSE {})
    \cup (IF k >= 2 THEN {"out0", "out1"} ELSE {})
    \cup (IF k >= 3 THEN {"err0", "err1"} ELSE {})

\* the pipe ends the error path closes when pipe() number k + 1 has failed
ClosedOnPipeFailure(k) == PipeEnds(k)

\* pipe(stdinpipe), pipe(stdoutpipe), pipe(stderrpipe): k of them succeed; a
\* failure closes the earlier pipes and returns -EFAULT
PipeCreate ==
    /\ ppc = "pipes"
    /\ \E k \in 0..3 :
         IF k = 3
         THEN /\ pfds' = pfds \cup PipeEnds(3)
              /\ ppc' = "fork"
              /\ UNCHANGED <<pret, ioError>>
         ELSE /\ pfds' = (pfds \cup PipeEnds(k)) \ ClosedOnPipeFailure(k)
              /\ pret' = <<-EFAULT>>
              /\ ppc' = "done"
              /\ ioError' = TRUE
    /\ UNCHANGED <<privPid, privStatus, pwrite, psel, pn, chunksLeft, copyRet,
                   stdoutBuf, stderrBuf, traceLog, errorLog, stdinPipe,
                   stdoutPipe, stderrPipe, cpc>>
    /\ ChildFrame

\* priv.pid = fork(): the child execs the command; the parent, also when
\* fork returned -1, closes the child's ends and goes on to copyimage
PipeFork ==
    /\ ppc = "fork"
    /\ \E ok \in BOOLEAN :
         IF ok
         THEN /\ privPid' = "child"
              /\ cpc' = "running"
              /\ UNCHANGED ioError
         ELSE /\ privPid' = "failed"
              /\ cpc' = cpc
              /\ ioError' = TRUE
    /\ pfds' = pfds \ {"in0", "out1", "err1"}
    /\ ppc' = "copy"
    /\ UNCHANGED <<privStatus, pwrite, psel, pn, chunksLeft, copyRet, pret,
                   stdoutBuf, stderrBuf, traceLog, errorLog, stdinPipe,
                   stdoutPipe, stderrPipe>>
    /\ ChildFrame

\* copyimage hands the next chunk to pipe_copy_callback, which first calls
\* pipe_poll_process(priv, 1)
CopyNext ==
    /\ ppc = "copy"
    /\ chunksLeft > 0
    /\ pwrite' = TRUE
    /\ ppc' = "select"
    /\ UNCHANGED <<pfds, privPid, privStatus, psel, pn, chunksLeft, copyRet,
                   pret, stdoutBuf, stderrBuf, traceLog, errorLog, stdinPipe,
                   stdoutPipe, stderrPipe, cpc, ioError>>
    /\ ChildFrame

\* copyimage has handed over the whole image and returns 0
CopyDone ==
    /\ ppc = "copy"
    /\ chunksLeft = 0
    /\ copyRet' = <<0>>
    /\ ppc' = "close_stdin"
    /\ UNCHANGED <<pfds, privPid, privStatus, pwrite, psel, pn, chunksLeft,
                   pret, stdoutBuf, stderrBuf, traceLog, errorLog, stdinPipe,
                   stdoutPipe, stderrPipe, cpc, ioError>>
    /\ ChildFrame

\* copyimage fails on its own (it cannot read the image) and returns an error
CopyInputError ==
    /\ ppc = "copy"
    /\ chunksLeft > 0
    /\ copyRet' = <<-EFAULT>>
    /\ ioError' = TRUE
    /\ ppc' = "close_stdin"
    /\ UNCHANGED <<pfds, privPid, privStatus, pwrite, psel, pn, chunksLeft,
                   pret, stdoutBuf, stderrBuf, traceLog, errorLog, stdinPipe,
                   stdoutPipe, stderrPipe, cpc>>
    /\ ChildFrame

\* what copyimage may return when its callback returned r < 0: that value, or
\* an error code of its own
CopyCallbackError(r) == {<<r>>, <<-EFAULT>>}

\* pipe_poll_process returns r: to pipe_copy_callback, which gives up when
\* r < 0 and else goes on to copy_write; or, in the final poll, to pipe_image,
\* which keeps the copy's error if there was one (if (!ret) ret = pollret)
PollReturn(r) ==
    IF pwrite
    THEN IF r < 0
         THEN /\ copyRet' \in CopyCallbackError(r)
              /\ ppc' = "close_stdin"
         ELSE /\ copyRet' = copyRet
              /\ ppc' = "copy_write"
    ELSE /\ copyRet' = IF copyRet = <<0>> THEN <<r>> ELSE copyRet
         /\ ppc' = "close_out"

\* an end of file is read from a pipe once no process holds its write end
PipeEof == ~ChildRuns

\* the descriptors select() finds ready at this moment
ReadyFds ==
    (IF stdoutPipe # <<>> \/ PipeEof THEN {"out"} ELSE {})
    \cup (IF stderrPipe # <<>> \/ PipeEof THEN {"err"} ELSE {})
    \cup (IF pwrite /\ (stdinPipe < StdinCap \/ ~ChildRuns)
          THEN {"in"} ELSE {})

\* select(): returns the ready descriptors, or none after the timeout of one
\* second when none is ready; n = 0 at the top of the iteration
PollSelect ==
    /\ ppc = "select"
    /\ psel' = ReadyFds
    /\ pn' = 0
    /\ ppc' = "read_out"
    /\ UNCHANGED <<pfds, privPid, privStatus, pwrite, chunksLeft, copyRet,
                   pret, stdoutBuf, stderrBuf, traceLog, errorLog, stdinPipe,
                   stdoutPipe, stderrPipe, cpc, ioError>>
    /\ ChildFrame

\* select() fails: pipe_poll_process returns -errno
PollSelectFail ==
    /\ ppc = "select"
    /\ ioError' = TRUE
    /\ PollReturn(-EINTR)
    /\ UNCHANGED <<pfds, privPid, privStatus, pwrite, psel, pn, chunksLeft,
                   pret, stdoutBuf, stderrBuf, traceLog, errorLog, stdinPipe,
                   stdoutPipe, stderrPipe, cpc>>
    /\ ChildFrame

RECURSIVE FirstNewline(_, _)
\* the index of the first newline of data at or after i, 0 if there is none
FirstNewline(data, i) ==
    IF i > Len(data) THEN 0
    ELSE IF data[i] = 0 THEN i ELSE FirstNewline(data, i + 1)

RECURSIVE CompleteLines(_)
\* the complete lines of data, without their newlines
CompleteLines(data) ==
    LET nl == FirstNewline(data, 1)
    IN  IF nl = 0 THEN <<>>
        ELSE <<SubSeq(data, 1, nl - 1)>>
             \o CompleteLines(SubSeq(data, nl + 1, Len(data)))

RECURSIVE TrailingPart(_)
\* what follows the last newline of data
TrailingPart(data) ==
    LET nl == FirstNewline(data, 1)
    IN  IF nl = 0 THEN data ELSE TrailingPart(SubSeq(data, nl + 1, Len(data)))

\* if (FD_ISSET(priv->stdout, &readfds)) read_lines_notify(stdout, TRACELEVEL):
\* the bytes in the pipe are appended to the buffer, its complete lines are
\* logged, the rest stays; n += the bytes read.  A read error is returned.
PollReadOut ==
    /\ ppc = "read_out"
    /\ IF "out" \in psel
       THEN \/ /\ traceLog' = traceLog \o CompleteLines(stdoutBuf \o stdoutPipe)
               /\ stdoutBuf' = TrailingPart(stdoutBuf \o stdoutPipe)
               /\ pn' = pn + Len(stdoutPipe)
               /\ stdoutPipe' = <<>>
               /\ ppc' = "read_err"
               /\ UNCHANGED <<copyRet, ioError>>
            \/ /\ ioError' = TRUE
               /\ PollReturn(-EINTR)
               /\ UNCHANGED <<traceLog, stdoutBuf, pn, stdoutPipe>>
       ELSE /\ ppc' = "read_err"
            /\ UNCHANGED <<traceLog, stdoutBuf, pn, stdoutPipe, copyRet,
                           ioError>>
    /\ UNCHANGED <<pfds, privPid, privStatus, pwrite, psel, chunksLeft, pret,
                   stderrBuf, errorLog, stdinPipe, stderrPipe, cpc>>
    /\ ChildFrame

\* where the loop goes after the reads: if (n > 0) continue; else waitpid
AfterReads(n) == IF n > 0 THEN "select" ELSE "waitpid"

\* the same for stderr and ERRORLEVEL, then if (n > 0) continue
PollReadErr ==
    /\ ppc = "read_err"
    /\ IF "err" \in psel
       THEN \/ /\ errorLog' = errorLog \o CompleteLines(stderrBuf \o stderrPipe)
               /\ stderrBuf' = TrailingPart(stderrBuf \o stderrPipe)
               /\ pn' = pn + Len(stderrPipe)
               /\ stderrPipe' = <<>>
               /\ ppc' = AfterReads(pn')
               /\ UNCHANGED <<copyRet, ioError>>
            \/ /\ ioError' = TRUE
               /\ PollReturn(-EINTR)
               /\ UNCHANGED <<errorLog, stderrBuf, pn, stderrPipe>>
       ELSE /\ ppc' = AfterReads(pn)
            /\ UNCHANGED <<errorLog, stderrBuf, pn, stderrPipe, copyRet,
                           ioError>>
    /\ UNCHANGED <<pfds, privPid, privStatus, pwrite, psel, chunksLeft, pret,
                   stdoutBuf, traceLog, stdinPipe, stdoutPipe, cpc>>
    /\ ChildFrame

\* (mutation of ReapedStatus: the exit code is not kept)
ReapedStatusGeneric(ws) == 1

\* priv->status for a reaped subprocess: WEXITSTATUS, or 1 after a signal
ReapedStatus(ws) == IF ws.exited THEN ws.code ELSE 1

\* w = waitpid(priv->pid, &wstatus, WNOHANG) for the forked subprocess: it is
\* reaped if it has exited (status recorded, -status returned); else return 0
\* if stdin was asked for and is writable, else loop; w < 0 is returned
PollWaitpid ==
    /\ ppc = "waitpid"
    /\ privPid = "child"
    /\ \/ /\ cpc = "exited"
          /\ cpc' = "reaped"
          /\ privStatus' = ReapedStatus(cStatus)
          /\ PollReturn(-ReapedStatus(cStatus))
          /\ UNCHANGED ioError
       \/ /\ cpc = "running"
          /\ IF pwrite /\ "in" \in psel
             THEN PollReturn(0)
             ELSE ppc' = "select" /\ copyRet' = copyRet
          /\ UNCHANGED <<cpc, privStatus, ioError>>
       \/ /\ ioError' = TRUE
          /\ PollReturn(-ECHILD)
          /\ UNCHANGED <<cpc, privStatus>>
    /\ UNCHANGED <<pfds, privPid, pwrite, psel, pn, chunksLeft, pret,
                   stdoutBuf, stderrBuf, traceLog, errorLog, stdinPipe,
                   stdoutPipe, stderrPipe>>
    /\ ChildFrame

\* waitpid(-1, &wstatus, WNOHANG) after a failed fork: ECHILD, or 0 while the
\* process has other children
PollWaitpidNoChild ==
    /\ ppc = "waitpid"
    /\ privPid = "failed"
    /\ \/ PollReturn(-ECHILD)
       \/ IF pwrite /\ "in" \in psel
          THEN PollReturn(0)
          ELSE ppc' = "select" /\ copyRet' = copyRet
    /\ UNCHANGED <<pfds, privPid, privStatus, pwrite, psel, pn, chunksLeft,
                   pret, stdoutBuf, stderrBuf, traceLog, errorLog, stdinPipe,
                   stdoutPipe, stderrPipe, cpc, ioError>>
    /\ ChildFrame

\* copy_write(&priv->stdin, buf, len): the chunk goes into the pipe, or the
\* write fails because nobody reads the pipe any more (SIGPIPE is ignored)
CopyWrite ==
    /\ ppc = "copy_write"
    /\ IF ChildRuns
       THEN /\ stdinPipe' = stdinPipe + 1
            /\ chunksLeft' = chunksLeft - 1
            /\ ppc' = "copy"
            /\ UNCHANGED copyRet
       ELSE /\ copyRet' \in CopyCallbackError(-1)
            /\ ppc' = "close_stdin"
            /\ UNCHANGED <<stdinPipe, chunksLeft>>
    /\ UNCHANGED <<pfds, privPid, privStatus, pwrite, psel, pn, pret,
                   stdoutBuf, stderrBuf, traceLog, errorLog, stdoutPipe,
                   stderrPipe, cpc, ioError>>
    /\ ChildFrame

\* the final poll runs only if the subprocess was not reaped yet
NeedsFinalPoll(st) == st = -1

\* close(priv.stdin); if (priv.status == -1) pipe_poll_process(&priv, 0)
PipeCloseStdin ==
    /\ ppc = "close_stdin"
    /\ pfds' = pfds \ {"in1"}
    /\ pwrite' = FALSE
    /\ ppc' = IF NeedsFinalPoll(privStatus) THEN "select" ELSE "close_out"
    /\ UNCHANGED <<privPid, privStatus, psel, pn, chunksLeft, copyRet, pret,
                   stdoutBuf, stderrBuf, traceLog, errorLog, stdinPipe,
                   stdoutPipe, stderrPipe, cpc, ioError>>
    /\ ChildFrame

\* the log after the trailing buffer, if any, was written to it
Flushed(log, buf) == IF buf # <<>> THEN Append(log, buf) ELSE log

\* close(priv.stdout); close(priv.stderr); trailing buffers logged; return ret
PipeFinish ==
    /\ ppc = "close_out"
    /\ pfds' = pfds \ {"out0", "err0"}
    /\ traceLog' = Flushed(traceLog, stdoutBuf)
    /\ errorLog' = Flushed(errorLog, stderrBuf)
    /\ pret' = copyRet
    /\ ppc' = "done"
    /\ UNCHANGED <<privPid, privStatus, pwrite, psel, pn, chunksLeft, copyRet,
                   stdoutBuf, stderrBuf, stdinPipe, stdoutPipe, stderrPipe,
                   cpc, ioError>>
    /\ ChildFrame

----------------------------------------------------------------------------
(***************************************************************************)
(* The mkswu lock: mkswu_lock and mkswu_unlock, called by several          *)
(* processes on the same LOCK_FILE.  A descriptor is modelled by the inode *)
(* of the file it is open on; an flock belongs to the process that took it *)
(* and goes away when that descriptor is closed.                           *)
(***************************************************************************)
VARIABLES
    lpc,         \* position of each process in mkswu_lock / mkswu_unlock
    lock_fd,     \* static int lock_fd of each process: -2, -1 or a descriptor
    lret,        \* return value of each process' last mkswu_lock
    holding,     \* the process is between a successful lock and its unlock
    lockPath,    \* inode LOCK_FILE names, 0 if the path does not exist
    flockOwner,  \* the process holding the exclusive flock of each inode, or 0
    rebootFile,  \* REBOOT_FILE exists
    isRoot,      \* geteuid() == 0
    lerrno,      \* errno of each process: set by a failed system call, and
                 \* 0 when the value is not one the code may read
    afterUnlock  \* the process' last finished mkswu_unlock released a lock

lockVars == <<lpc, lock_fd, lret, holding, lockPath, flockOwner, rebootFile,
              isRoot, lerrno, afterUnlock>>

Procs == 1..NumProcs

\* inode numbers; one more than there are processes is never exhausted
Inodes == 1..(NumProcs + 1)

LockOff ==
    /\ lpc = [p \in Procs |-> "off"]
    /\ lock_fd = [p \in Procs |-> -2]
    /\ lret = [p \in Procs |-> NoRet]
    /\ holding = [p \in Procs |-> FALSE]
    /\ lockPath = 0
    /\ flockOwner = [i \in Inodes |-> 0]
    /\ rebootFile = FALSE
    /\ isRoot = TRUE
    /\ lerrno = [p \in Procs |-> 0]
    /\ afterUnlock = [p \in Procs |-> FALSE]

LockInit ==
    /\ lpc = [p \in Procs |-> "idle"]
    /\ lock_fd = [p \in Procs |-> -2]
    /\ lret = [p \in Procs |-> NoRet]
    /\ holding = [p \in Procs |-> FALSE]
    /\ lockPath = 0
    /\ flockOwner = [i \in Inodes |-> 0]
    /\ rebootFile = FALSE
    /\ isRoot \in BOOLEAN
    /\ lerrno = [p \in Procs |-> 0]
    /\ afterUnlock = [p \in Procs |-> FALSE]

\* inodes in use: named by the path or open in some process
InodesInUse == {lockPath} \cup {lock_fd[q] : q \in Procs}

\* the inode a newly created file gets
NewInode == CHOOSE i \in Inodes : i \notin InodesInUse

\* flockOwner after process p closed its descriptor on inode i
Released(p, i) ==
    [j \in Inodes |-> IF j = i /\ flockOwner[j] = p THEN 0 ELSE flockOwner[j]]

\* lock_fd after the test for the first call of a regular user
FirstCallFd(fd) == IF fd = -2 /\ ~isRoot THEN -1 ELSE fd

\* mkswu_lock is entered: if (lock_fd >= 0) goto sanity_checks; else again:
LockCall(p) ==
    /\ lpc[p] \in {"idle", "held"}
    /\ lock_fd' = [lock_fd EXCEPT ![p] = FirstCallFd(@)]
    /\ lpc' = [lpc EXCEPT ![p] = IF lock_fd[p] >= 0 THEN "fstat" ELSE "open"]
    /\ lret' = [lret EXCEPT ![p] = NoRet]
    /\ lerrno' = [lerrno EXCEPT ![p] = 0]
    /\ UNCHANGED <<holding, lockPath, flockOwner, rebootFile, isRoot,
                   afterUnlock>>

\* lock_fd = open(LOCK_FILE, O_WRONLY|O_CREAT): the file at the path, created
\* if there is none; on failure return 1
LockOpen(p) ==
    /\ lpc[p] = "open"
    /\ \/ /\ lockPath' = IF lockPath = 0 THEN NewInode ELSE lockPath
          /\ lock_fd' = [lock_fd EXCEPT ![p] = lockPath']
          /\ lpc' = [lpc EXCEPT ![p] = "flock_nb"]
          /\ UNCHANGED <<lret, holding, lerrno>>
       \/ /\ lock_fd' = [lock_fd EXCEPT ![p] = -1]
          /\ lerrno' = [lerrno EXCEPT ![p] = EIO]
          /\ lret' = [lret EXCEPT ![p] = <<1>>]
          /\ holding' = [holding EXCEPT ![p] = FALSE]
          /\ lpc' = [lpc EXCEPT ![p] = "idle"]
          /\ UNCHANGED lockPath
    /\ UNCHANGED <<flockOwner, rebootFile, isRoot, afterUnlock>>

\* out_close: close(lock_fd); lock_fd = -1; return 1
OutClose(p) ==
    /\ flockOwner' = Released(p, lock_fd[p])
    /\ lock_fd' = [lock_fd EXCEPT ![p] = -1]
    /\ lret' = [lret EXCEPT ![p] = <<1>>]
    /\ holding' = [holding EXCEPT ![p] = FALSE]
    /\ lpc' = [lpc EXCEPT ![p] = "idle"]

\* (mutation of NonBlockingFatal: a lock held elsewhere is an error too)
NonBlockingAlwaysFatal(errno) == TRUE

\* if (errno != EAGAIN || errno != EWOULDBLOCK) goto out_close
NonBlockingFatal(errno) == errno # EAGAIN \/ errno # EWOULDBLOCK

\* flock(lock_fd, LOCK_EX|LOCK_NB): taken; or held elsewhere (EWOULDBLOCK),
\* then wait for it; or another error, then out_close
LockFlockNb(p) ==
    /\ lpc[p] = "flock_nb"
    /\ \/ /\ flockOwner[lock_fd[p]] = 0
          /\ flockOwner' = [flockOwner EXCEPT ![lock_fd[p]] = p]
          /\ lpc' = [lpc EXCEPT ![p] = "fstat"]
          /\ UNCHANGED <<lock_fd, lret, holding, lerrno>>
       \/ /\ flockOwner[lock_fd[p]] \notin {0, p}
          /\ lerrno' = [lerrno EXCEPT ![p] = EWOULDBLOCK]
          /\ IF NonBlockingFatal(EWOULDBLOCK)
             THEN OutClose(p)
             ELSE /\ lpc' = [lpc EXCEPT ![p] = "flock_wait"]
                  /\ UNCHANGED <<lock_fd, lret, holding, flockOwner>>
       \/ /\ lerrno' = [lerrno EXCEPT ![p] = EIO]
          /\ NonBlockingFatal(EIO)
          /\ OutClose(p)
    /\ UNCHANGED <<lockPath, rebootFile, isRoot, afterUnlock>>

\* in the blocking loop: if (errno == EAGAIN) continue; else out_close
BlockingRetry(errno) == errno = EAGAIN

\* flock(lock_fd, LOCK_EX): taken once nobody holds it; or, while it waits,
\* interrupted by a signal (EINTR) or failed for another reason
LockFlockWait(p) ==
    /\ lpc[p] = "flock_wait"
    /\ \/ /\ flockOwner[lock_fd[p]] = 0
          /\ flockOwner' = [flockOwner EXCEPT ![lock_fd[p]] = p]
          /\ lpc' = [lpc EXCEPT ![p] = "fstat"]
          /\ lerrno' = [lerrno EXCEPT ![p] = 0]
          /\ UNCHANGED <<lock_fd, lret, holding>>
       \/ /\ flockOwner[lock_fd[p]] # 0
          /\ \E e \in {EINTR, EIO} :
               /\ lerrno' = [lerrno EXCEPT ![p] = e]
               /\ IF BlockingRetry(e)
                  THEN UNCHANGED <<lpc, lock_fd, lret, holding, flockOwner>>
                  ELSE OutClose(p)
    /\ UNCHANGED <<lockPath, rebootFile, isRoot, afterUnlock>>

\* sanity_checks: fstat(lock_fd, &statbuf_fd); on failure out_close
LockFstat(p) ==
    /\ lpc[p] = "fstat"
    /\ \/ /\ lpc' = [lpc EXCEPT ![p] = "lstat"]
          /\ UNCHANGED <<lock_fd, lret, holding, flockOwner, lerrno>>
       \/ /\ lerrno' = [lerrno EXCEPT ![p] = EIO]
          /\ OutClose(p)
    /\ UNCHANGED <<lockPath, rebootFile, isRoot, afterUnlock>>

\* (mutation of LockFileChanged: only a missing path counts as a change)
LockFileMissingOnly(fd, path) == path = 0

\* (mutation of LockFileChanged: the lock file is not looked at again)
LockFileNeverChanged(fd, path) == FALSE

\* lstat(LOCK_FILE) < 0 || statbuf_fd.st_ino != statbuf_path.st_ino
LockFileChanged(fd, path) == path = 0 \/ fd # path

\* if the lock file changed: close(lock_fd); goto again
LockLstat(p) ==
    /\ lpc[p] = "lstat"
    /\ IF LockFileChanged(lock_fd[p], lockPath)
       THEN /\ flockOwner' = Released(p, lock_fd[p])
            /\ lock_fd' = [lock_fd EXCEPT ![p] = -1]
            /\ holding' = [holding EXCEPT ![p] = FALSE]
            /\ lpc' = [lpc EXCEPT ![p] = "open"]
       ELSE /\ lpc' = [lpc EXCEPT ![p] = "reboot"]
            /\ UNCHANGED <<lock_fd, holding, flockOwner>>
    /\ UNCHANGED <<lret, lockPath, rebootFile, isRoot, lerrno, afterUnlock>>

\* (mutation of LockRebootCheck: the reboot marker is not looked at)
LockRebootCheckNoStall(p) ==
    /\ lpc[p] = "reboot"
    /\ lpc' = [lpc EXCEPT ![p] = "held"]
    /\ lret' = [lret EXCEPT ![p] = <<0>>]
    /\ holding' = [holding EXCEPT ![p] = TRUE]
    /\ UNCHANGED <<lock_fd, lockPath, flockOwner, rebootFile, isRoot, lerrno,
                   afterUnlock>>

\* if (access(REBOOT_FILE, F_OK) == 0) sleep forever; else write the pid and
\* return 0
LockRebootCheck(p) ==
    /\ lpc[p] = "reboot"
    /\ IF rebootFile
       THEN /\ lpc' = [lpc EXCEPT ![p] = "stalled"]
            /\ UNCHANGED <<lret, holding>>
       ELSE /\ lpc' = [lpc EXCEPT ![p] = "held"]
            /\ lret' = [lret EXCEPT ![p] = <<0>>]
            /\ holding' = [holding EXCEPT ![p] = TRUE]
    /\ UNCHANGED <<lock_fd, lockPath, flockOwner, rebootFile, isRoot, lerrno,
                   afterUnlock>>

\* mkswu_unlock is entered: if (lock_fd < 0) return
UnlockCall(p) ==
    /\ lpc[p] \in {"idle", "held"}
    /\ holding' = [holding EXCEPT ![p] = FALSE]
    /\ lpc' = [lpc EXCEPT ![p] = IF lock_fd[p] < 0 THEN "idle" ELSE "unlink"]
    /\ afterUnlock' = [afterUnlock EXCEPT ![p] = FALSE]
    /\ UNCHANGED <<lock_fd, lret, lockPath, flockOwner, rebootFile, isRoot,
                   lerrno>>

\* unlink(LOCK_FILE)
UnlockUnlink(p) ==
    /\ lpc[p] = "unlink"
    /\ lockPath' = 0
    /\ lpc' = [lpc EXCEPT ![p] = "close"]
    /\ UNCHANGED <<lock_fd, lret, holding, flockOwner, rebootFile, isRoot,
                   lerrno, afterUnlock>>

\* close(lock_fd); lock_fd = -1
UnlockClose(p) ==
    /\ lpc[p] = "close"
    /\ flockOwner' = Released(p, lock_fd[p])
    /\ lock_fd' = [lock_fd EXCEPT ![p] = -1]
    /\ lpc' = [lpc EXCEPT ![p] = "idle"]
    /\ afterUnlock' = [afterUnlock EXCEPT ![p] = TRUE]
    /\ UNCHANGED <<lret, holding, lockPath, rebootFile, isRoot, lerrno>>

\* an update that finished marks the system for reboot, or the marker is
\* removed again
RebootToggle ==
    /\ rebootFile' = ~rebootFile
    /\ UNCHANGED <<lpc, lock_fd, lret, holding, lockPath, flockOwner, isRoot,
                   lerrno, afterUnlock>>

----------------------------------------------------------------------------
(***************************************************************************)
(* The example client (tools/swupdate-client.c): main sends each file with *)
(* send_file, which starts a session of the library and waits on the       *)
(* condition variable cv_end that the terminator callback end() signals    *)
(* from the library's worker thread.                                       *)
(***************************************************************************)
VARIABLES
    mainPc,       \* where the main thread is
    libPc,        \* where the library's worker thread is
    mymutex,      \* who holds mymutex: "free", "main" or "worker"
    end_status,   \* the global end_status
    rc,           \* what swupdate_async_start returned to send_file
    argc,         \* the number of files on the command line
    nsent,        \* the number of send_file calls made so far
    libCall,      \* the send_file call that started the present worker
    endCalls,     \* the send_file calls whose worker has invoked end()
    sendRet       \* the results of the send_file calls that returned

clientVars == <<mainPc, libPc, mymutex, end_status, rc, argc, nsent, libCall,
                endCalls, sendRet>>

\* the client is not part of the run
ClientOff ==
    /\ mainPc = "off"
    /\ libPc = "none"
    /\ mymutex = "free"
    /\ end_status = EXIT_SUCCESS
    /\ rc = NoRet
    /\ argc = 0
    /\ nsent = 0
    /\ libCall = 0
    /\ endCalls = {}
    /\ sendRet = <<>>

\* main after pthread_mutex_init and the options, with argc file names
ClientInit ==
    /\ mainPc = "loop"
    /\ libPc = "none"
    /\ mymutex = "free"
    /\ end_status = EXIT_SUCCESS
    /\ rc = NoRet
    /\ argc \in 1..MaxFiles
    /\ nsent = 0
    /\ libCall = 0
    /\ endCalls = {}
    /\ sendRet = <<>>

\* the positions of the worker from the call of end() to its return
EndPhases == {"end", "end_lock", "end_signal", "end_unlock"}

\* send_file returns v to main: if (send_file(argv[i])) exit(1)
SendFileReturn(v) ==
    /\ sendRet' = Append(sendRet, v)
    /\ mainPc' = IF v # 0 THEN "exit" ELSE "loop"

\* main: for (i = 0; i < argc; i++) send_file(argv[i]); exit(0)
MainNext ==
    /\ mainPc = "loop"
    /\ IF nsent < argc
       THEN /\ nsent' = nsent + 1
            /\ mainPc' = "open"
       ELSE /\ nsent' = nsent
            /\ mainPc' = "exit"
    /\ UNCHANGED <<libPc, mymutex, end_status, rc, argc, libCall, endCalls,
                   sendRet>>

\* send_file: open the file, or return EXIT_FAILURE; end_status = EXIT_SUCCESS
SendOpen ==
    /\ mainPc = "open"
    /\ \E ok \in BOOLEAN :
         IF ok
         THEN /\ end_status' = EXIT_SUCCESS
              /\ mainPc' = "start"
              /\ sendRet' = sendRet
         ELSE /\ end_status' = end_status
              /\ SendFileReturn(EXIT_FAILURE)
    /\ UNCHANGED <<libPc, mymutex, rc, argc, nsent, libCall, endCalls>>

\* rc = swupdate_async_start(readimage, printstatus, end, ...): -EBUSY while
\* the library's state is RUNNING (a worker at work, or the state left at
\* RUNNING by an earlier worker); otherwise the finished worker is joined,
\* and the result is the connect error, 0 when no thread was created, or 1
\* with a new worker
SendStart ==
    /\ mainPc = "start"
    /\ \/ /\ libPc # "none"
          /\ rc' = <<-EBUSY>>
          /\ UNCHANGED <<libPc, libCall>>
       \/ /\ libPc \in {"none", "exited"}
          /\ \/ /\ rc' \in {<<-1>>, <<0>>}
                /\ UNCHANGED <<libPc, libCall>>
             \/ /\ rc' = <<1>>
                /\ libPc' = "work"
                /\ libCall' = nsent
    /\ mainPc' = "check_rc"
    /\ UNCHANGED <<mymutex, end_status, argc, nsent, endCalls, sendRet>>

\* if (rc < 0) { pthread_mutex_unlock(&mymutex); close(fd); return
\* EXIT_FAILURE; }  The mutex is not held by main here: the unlock leaves it
\* as it is or releases it, whoever holds it.
SendCheckRc ==
    /\ mainPc = "check_rc"
    /\ IF rc[1] < 0
       THEN /\ mymutex' \in {mymutex, "free"}
            /\ SendFileReturn(EXIT_FAILURE)
       ELSE /\ mymutex' = mymutex
            /\ mainPc' = "lock"
            /\ sendRet' = sendRet
    /\ UNCHANGED <<libPc, end_status, rc, argc, nsent, libCall, endCalls>>

\* pthread_mutex_lock(&mymutex)
SendLock ==
    /\ mainPc = "lock"
    /\ mymutex = "free"
    /\ mymutex' = "main"
    /\ mainPc' = "cond_wait"
    /\ UNCHANGED <<libPc, end_status, rc, argc, nsent, libCall, endCalls,
                   sendRet>>

\* pthread_cond_wait(&cv_end, &mymutex): releases the mutex and blocks
SendCondWait ==
    /\ mainPc = "cond_wait"
    /\ mymutex' = "free"
    /\ mainPc' = "waiting"
    /\ UNCHANGED <<libPc, end_status, rc, argc, nsent, libCall, endCalls,
                   sendRet>>

\* pthread_cond_wait may wake up without a signal
SpuriousWakeup ==
    /\ mainPc = "waiting"
    /\ mainPc' = "woken"
    /\ UNCHANGED <<libPc, mymutex, end_status, rc, argc, nsent, libCall,
                   endCalls, sendRet>>

\* pthread_cond_wait returns with the mutex held again
SendRelock ==
    /\ mainPc = "woken"
    /\ mymutex = "free"
    /\ mymutex' = "main"
    /\ mainPc' = "unlock"
    /\ UNCHANGED <<libPc, end_status, rc, argc, nsent, libCall, endCalls,
                   sendRet>>

\* pthread_mutex_unlock(&mymutex); close(fd); return end_status
SendUnlock ==
    /\ mainPc = "unlock"
    /\ mymutex' = "free"
    /\ SendFileReturn(end_status)
    /\ UNCHANGED <<libPc, end_status, rc, argc, nsent, libCall, endCalls>>

\* the steps of the main thread that are not left to chance
MainStep ==
    \/ MainNext
    \/ SendOpen
    \/ SendStart
    \/ SendCheckRc
    \/ SendLock
    \/ SendCondWait
    \/ SendRelock
    \/ SendUnlock

\* the worker of the library sends the image and the notifications, arrives
\* at out: and is about to call rq->end; exit() of main ends every thread
LibWork ==
    /\ mainPc # "exit"
    /\ libPc = "work"
    /\ libPc' = "end"
    /\ UNCHANGED <<mainPc, mymutex, end_status, rc, argc, nsent, libCall,
                   endCalls, sendRet>>

\* end(status): end_status from the status and the post-update action
End ==
    /\ mainPc # "exit"
    /\ libPc = "end"
    /\ end_status' \in {EXIT_SUCCESS, EXIT_FAILURE}
    /\ endCalls' = endCalls \cup {libCall}
    /\ libPc' = "end_lock"
    /\ UNCHANGED <<mainPc, mymutex, rc, argc, nsent, libCall, sendRet>>

\* end: pthread_mutex_lock(&mymutex)
EndLock ==
    /\ mainPc # "exit"
    /\ libPc = "end_lock"
    /\ mymutex = "free"
    /\ mymutex' = "worker"
    /\ libPc' = "end_signal"
    /\ UNCHANGED <<mainPc, end_status, rc, argc, nsent, libCall, endCalls,
                   sendRet>>

\* end: pthread_cond_signal(&cv_end) wakes the thread that waits now, if any
EndSignal ==
    /\ mainPc # "exit"
    /\ libPc = "end_signal"
    /\ mainPc' = IF mainPc = "waiting" THEN "woken" ELSE mainPc
    /\ libPc' = "end_unlock"
    /\ UNCHANGED <<mymutex, end_status, rc, argc, nsent, libCall, endCalls,
                   sendRet>>

\* end: pthread_mutex_unlock(&mymutex); return 0; the worker then exits
EndUnlock ==
    /\ mainPc # "exit"
    /\ libPc = "end_unlock"
    /\ mymutex' = "free"
    /\ libPc' = "exited"
    /\ UNCHANGED <<mainPc, end_status, rc, argc, nsent, libCall, endCalls,
                   sendRet>>

\* the steps of the library's worker thread
LibStep ==
    \/ LibWork
    \/ End
    \/ EndLock
    \/ EndSignal
    \/ EndUnlock

vars == <<asyncVars, aesVars, pipeVars, lockVars, clientVars>>

\* a step of the asynchronous session leaves the other parts alone
AsyncOnly == UNCHANGED <<aesVars, pipeVars, lockVars, clientVars>>

\* a step of the pipe handler or its subprocess leaves the other parts alone
PipeOnly == UNCHANGED <<asyncVars, aesVars, lockVars, clientVars>>

\* a step of the lock leaves the other parts alone
LockOnly == UNCHANGED <<asyncVars, aesVars, pipeVars, clientVars>>

\* the asynchronous session
Init == AsyncInit /\ AesOff /\ PipeOff /\ LockOff /\ ClientOff

Next ==
    \/ StartSwitch /\ AsyncOnly
    \/ StartJoin /\ AsyncOnly
    \/ StartConnect /\ AsyncOnly
    \/ StartCreate /\ AsyncOnly
    \/ StartSetRunning /\ AsyncOnly
    \/ StartReturn /\ AsyncOnly
    \/ \E t \in Threads : WorkerSigmask(t) /\ AsyncOnly
    \/ \E t \in Threads : WorkerNotifyConnect(t) /\ AsyncOnly
    \/ \E t \in Threads : WorkerLoopTop(t) /\ AsyncOnly
    \/ \E t \in Threads : WorkerSelectEintr(t) /\ AsyncOnly
    \/ \E t \in Threads : WorkerSelectFail(t) /\ AsyncOnly
    \/ \E t \in Threads : WorkerSelectReady(t) /\ AsyncOnly
    \/ \E t \in Threads : WorkerProduce(t) /\ AsyncOnly
    \/ \E t \in Threads : WorkerRecv(t) /\ AsyncOnly
    \/ \E t \in Threads : WorkerLoopCond(t) /\ AsyncOnly
    \/ \E t \in Threads : WorkerCloseData(t) /\ AsyncOnly
    \/ \E t \in Threads : WorkerDrain(t) /\ AsyncOnly
    \/ \E t \in Threads : WorkerCloseNotify(t) /\ AsyncOnly
    \/ \E t \in Threads : WorkerRestoreMask(t) /\ AsyncOnly
    \/ \E t \in Threads : WorkerOut(t) /\ AsyncOnly
    \/ \E t \in Threads : WorkerGetStatus(t) /\ AsyncOnly
    \/ \E t \in Threads : WorkerEnd(t) /\ AsyncOnly
    \/ \E t \in Threads : WorkerExit(t) /\ AsyncOnly

Spec == Init /\ [][Next]_vars

\* swupdate_set_aes
InitAes == AesInit /\ AsyncInit /\ PipeOff /\ LockOff /\ ClientOff

NextAes == SetAes /\ UNCHANGED <<asyncVars, pipeVars, lockVars, clientVars>>

SpecAes == InitAes /\ [][NextAes]_vars

\* the pipe handler and its subprocess
InitPipe == PipeInit /\ AsyncInit /\ AesOff /\ LockOff /\ ClientOff

NextPipe ==
    \/ PipeCreate /\ PipeOnly
    \/ PipeFork /\ PipeOnly
    \/ CopyNext /\ PipeOnly
    \/ CopyDone /\ PipeOnly
    \/ CopyInputError /\ PipeOnly
    \/ PollSelect /\ PipeOnly
    \/ PollSelectFail /\ PipeOnly
    \/ PollReadOut /\ PipeOnly
    \/ PollReadErr /\ PipeOnly
    \/ PollWaitpid /\ PipeOnly
    \/ PollWaitpidNoChild /\ PipeOnly
    \/ CopyWrite /\ PipeOnly
    \/ PipeCloseStdin /\ PipeOnly
    \/ PipeFinish /\ PipeOnly
    \/ ChildWriteOut /\ PipeOnly
    \/ ChildWriteErr /\ PipeOnly
    \/ ChildRead /\ PipeOnly
    \/ ChildExit /\ PipeOnly

SpecPipe == InitPipe /\ [][NextPipe]_vars

\* the mkswu lock
InitLock == LockInit /\ AsyncInit /\ AesOff /\ PipeOff /\ ClientOff

NextLock ==
    \/ \E p \in Procs : LockCall(p) /\ LockOnly
    \/ \E p \in Procs : LockOpen(p) /\ LockOnly
    \/ \E p \in Procs : LockFlockNb(p) /\ LockOnly
    \/ \E p \in Procs : LockFlockWait(p) /\ LockOnly
    \/ \E p \in Procs : LockFstat(p) /\ LockOnly
    \/ \E p \in Procs : LockLstat(p) /\ LockOnly
    \/ \E p \in Procs : LockRebootCheck(p) /\ LockOnly
    \/ \E p \in Procs : UnlockCall(p) /\ LockOnly
    \/ \E p \in Procs : UnlockUnlink(p) /\ LockOnly
    \/ \E p \in Procs : UnlockClose(p) /\ LockOnly
    \/ RebootToggle /\ LockOnly

SpecLock == InitLock /\ [][NextLock]_vars

\* the steps a process takes inside mkswu_lock and mkswu_unlock
LockStep(p) ==
    \/ LockOpen(p)
    \/ LockFlockNb(p)
    \/ LockFlockWait(p)
    \/ LockFstat(p)
    \/ LockLstat(p)
    \/ LockRebootCheck(p)
    \/ UnlockUnlink(p)
    \/ UnlockClose(p)

\* a process inside a call goes on running: it is not kept from a step that
\* is not a failing system call.  When it calls, and whether a system call
\* fails or is interrupted, is up to the environment.
FairSpecLock ==
    /\ SpecLock
    /\ \A p \in Procs :
         WF_vars(LockStep(p) /\ lret'[p] # <<1>> /\ LockOnly)

\* the threads are scheduled fairly: the application thread and every worker
\* thread that can take a step eventually takes one
FairSpec ==
    /\ Spec
    /\ WF_vars((StartSwitch \/ StartJoin \/ StartConnect \/ StartCreate
                  \/ StartSetRunning \/ StartReturn) /\ AsyncOnly)
    /\ \A t \in Threads : WF_vars(WorkerStep(t) /\ AsyncOnly)

\* a step of the example client leaves the other parts alone
ClientOnly == UNCHANGED <<asyncVars, aesVars, pipeVars, lockVars>>

\* the example client
InitClient == ClientInit /\ AsyncInit /\ AesOff /\ PipeOff /\ LockOff

NextClient ==
    \/ MainNext /\ ClientOnly
    \/ SendOpen /\ ClientOnly
    \/ SendStart /\ ClientOnly
    \/ SendCheckRc /\ ClientOnly
    \/ SendLock /\ ClientOnly
    \/ SendCondWait /\ ClientOnly
    \/ SpuriousWakeup /\ ClientOnly
    \/ SendRelock /\ ClientOnly
    \/ SendUnlock /\ ClientOnly
    \/ LibWork /\ ClientOnly
    \/ End /\ ClientOnly
    \/ EndLock /\ ClientOnly
    \/ EndSignal /\ ClientOnly
    \/ EndUnlock /\ ClientOnly

SpecClient == InitClient /\ [][NextClient]_vars

\* both threads go on running while they can; a wake-up of pthread_cond_wait
\* without a signal may happen but is never owed
FairSpecClient ==
    /\ SpecClient
    /\ WF_vars(MainStep /\ ClientOnly)
    /\ WF_vars(LibStep /\ ClientOnly)

----------------------------------------------------------------------------
(***************************************************************************)
(* Claims about the asynchronous session.                                  *)
(***************************************************************************)

\* a step in which swupdate_async_start is entered
IsCall == apc = "idle" /\ ncalls' = ncalls + 1

\* a step in which swupdate_async_start returns
IsReturn == apc' = "idle" /\ (apc # "idle" \/ IsCall)

\* a step in which pthread_create makes thread t
IsCreate(t) == ~Alive(t) /\ wpc'[t] = "sigmask"

\* C1: a call of swupdate_async_start made while running is
\* ASYNC_THREAD_RUNNING returns -EBUSY at once, and opens no connection,
\* creates no thread and leaves the session state as it was.
C1_BusyWhileRunning ==
    [][(IsCall /\ running = ASYNC_THREAD_RUNNING) =>
          /\ aret' = <<-EBUSY>>
          /\ apc' = "idle"
          /\ UNCHANGED <<running, async_thread_id, rq, wpc, openData,
                         openNotify>>]_vars

\* C1 witness: a call has returned -EBUSY after reading RUNNING
C1_Witness ==
    /\ aret = <<-EBUSY>>
    /\ aseen = ASYNC_THREAD_RUNNING
    /\ apc = "idle"

\* C2: at most one worker thread exists at any time, and pthread_create runs
\* only with running = ASYNC_THREAD_INIT and every earlier worker either
\* never created or joined.
C2_OneWorker ==
    /\ [](Cardinality({t \in Threads : Alive(t)}) <= 1)
    /\ [][\A t \in Threads :
            IsCreate(t) =>
              /\ running = ASYNC_THREAD_INIT
              /\ \A u \in Threads : wpc[u] \in {"none", "joined"}]_vars

\* C2 witness: a second worker runs after the first one was joined
C2_Witness ==
    \E t, u \in Threads : wpc[t] = "joined" /\ Alive(u)

\* C3 as claimed: a call that found ASYNC_THREAD_DONE always returns success
\* with running = ASYNC_THREAD_RUNNING and a new live worker.
C3_Claim ==
    [][(IsReturn /\ aseen' = ASYNC_THREAD_DONE) =>
          /\ aret' = <<1>>
          /\ running' = ASYNC_THREAD_RUNNING
          /\ async_thread_id' = ncalls'
          /\ wpc'[ncalls'] \notin {"none", "exited", "joined"}]_vars

\* C3 amended: a call that found ASYNC_THREAD_DONE never returns -EBUSY; it
\* joins the finished worker and sets running to ASYNC_THREAD_INIT before it
\* connects; it returns the connect error or 0 (thread creation failed) with
\* running still ASYNC_THREAD_INIT and no new worker, or 1 with a new worker
\* created and running RUNNING, or already DONE once that worker is on its
\* way out.
C3_StartAfterDone ==
    /\ [][(apc = "join" /\ apc' # "join") =>
            /\ wpc[async_thread_id] = "exited"
            /\ wpc'[async_thread_id] = "joined"
            /\ running' = ASYNC_THREAD_INIT
            /\ apc' = "connect"]_vars
    /\ [][(IsReturn /\ aseen' = ASYNC_THREAD_DONE) =>
            /\ aret' # <<-EBUSY>>
            /\ \A u \in Threads : u < ncalls' => wpc'[u] \in {"none", "joined"}
            /\ \/ /\ aret' \in {<<-1>>, <<0>>}
                  /\ running' = ASYNC_THREAD_INIT
                  /\ wpc'[ncalls'] = "none"
               \/ /\ aret' = <<1>>
                  /\ async_thread_id' = ncalls'
                  /\ wpc'[ncalls'] # "none"
                  /\ running' \in {ASYNC_THREAD_RUNNING, ASYNC_THREAD_DONE}]_vars

\* C3 witness: a call that found DONE has returned 1 and its worker runs
C3_Witness ==
    /\ aseen = ASYNC_THREAD_DONE
    /\ apc = "idle"
    /\ aret = <<1>>
    /\ running = ASYNC_THREAD_RUNNING
    /\ Alive(async_thread_id)
    /\ \E u \in Threads : wpc[u] = "joined"

\* C4 as claimed: when a worker with a producer leaves the write loop without
\* a fatal error, the producer has delivered its zero-length chunk and the
\* bytes written are the concatenation of the chunks it returned, in order.
C4_Claim ==
    \A t \in Threads :
      (wpc[t] = "close_data" /\ rq.wr) =>
        /\ Len(produced) > 0
        /\ produced[Len(produced)] = 0
        /\ written = Flatten(produced, 1)

\* C4 witness: the write loop ended after two chunks and the zero-length one
C4_Witness ==
    \E t \in Threads :
      /\ wpc[t] = "close_data"
      /\ rq.wr
      /\ produced = <<1, 2, 0>>
      /\ written = <<1, 2, 2>>

\* C5 as claimed: every worker that has a terminator callback and arrives at
\* out:, after success or after any fatal error, hands the terminator exactly
\* one result and then exits.
C5_Claim ==
    \A t \in Threads :
      [](((wpc[t] = "out") /\ rq.end) =>
           <>(wpc[t] = "exit" /\ Len(endLog) = 1))

\* C5 witness: a worker that failed is about to exit with one terminator call
C5_Witness ==
    \E t \in Threads :
      wpc[t] = "exit" /\ rq.end /\ failed /\ Len(endLog) = 1

\* C6 as claimed: when the terminator callback is invoked, the data
\* connection and the notification connection are closed.
C6_Claim ==
    \A t \in Threads :
      wpc[t] = "end" => (rq.connfd \notin openData /\ t \notin openNotify)

\* C6 witness: the terminator is invoked after a fatal error
C6_Witness ==
    \E t \in Threads : wpc[t] = "end" /\ failed

\* C14: the worker closes the notification channel only from the drain loop
\* and only when the last notification it received reported IDLE; while the
\* last one did not, the drain loop only receives (and forwards) or fails.
C14_IdleBeforeClose ==
    /\ [][\A t \in Threads :
            (t \in openNotify /\ t \notin openNotify') =>
               /\ wpc[t] = "drain"
               /\ ~failed
               /\ Len(received) > 0
               /\ received[Len(received)] = IDLE
               /\ status[t] = IDLE]_vars
    /\ [][\A t \in Threads :
            (wpc[t] = "drain" /\ status[t] # IDLE /\ t \in openNotify) =>
               /\ t \in openNotify'
               /\ \/ /\ wpc'[t] = "drain"
                     /\ Len(received') >= Len(received)
                     /\ rq.get => forwarded' = received'
                  \/ (wpc'[t] = "out" /\ failed')]_vars

\* C14 witness: the channel is closed after a RUN and then an IDLE notification
C14_Witness ==
    \E t \in Threads :
      /\ wpc[t] = "restore_mask"
      /\ t \notin openNotify
      /\ received = <<RUN, IDLE>>

\* C15: with a status consumer configured, the notifications handed to it are
\* exactly the notifications received so far, in the order received; without
\* one, none is handed over.
C15_ForwardedInOrder ==
    \A t \in Threads :
      Alive(t) =>
        forwarded = (IF rq.get THEN received ELSE <<>>)

\* C15 witness: two notifications, one from the write phase and one from the
\* drain phase, were forwarded
C15_Witness ==
    \E t \in Threads :
      /\ rq.get
      /\ rq.wr
      /\ wpc[t] = "drain"
      /\ forwarded = <<RUN, IDLE>>

\* a step in which swupdate_image_write wrote less than the chunk
ShortWrite(t) ==
    /\ wpc[t] = "produce"
    /\ Len(produced') = Len(produced) + 1
    /\ Len(written') - Len(written) < produced'[Len(produced')]

\* the steps from out: to pthread_exit
ExitPath == {"out", "get_status", "end", "exit"}

\* C16: a short write sends the worker to out: at once, and from there until
\* it exits the producer is not called, nothing is written and no
\* notification is received or forwarded.
C16_ShortWriteFatal ==
    /\ [][\A t \in Threads :
            ShortWrite(t) => (wpc'[t] = "out" /\ failed')]_vars
    /\ [][\A t \in Threads :
            (failed /\ Alive(t) /\ wpc'[t] # "exited") =>
               /\ wpc[t] \in ExitPath
               /\ wpc'[t] \in ExitPath
               /\ UNCHANGED <<produced, written, received, forwarded,
                              openData, openNotify>>]_vars

\* C16 witness: the terminator is about to be called after one byte of a
\* chunk of two was written
C16_Witness ==
    \E t \in Threads :
      /\ wpc[t] = "end"
      /\ failed
      /\ produced = <<2>>
      /\ Len(written) = 1

\* C17 as claimed: when the status query on the way out has returned, failed
\* or not, the worker's next step is the call of the terminator.
C17_Claim ==
    [][\A t \in Threads :
         (wpc[t] = "get_status" /\ wpc'[t] # "get_status") =>
            wpc'[t] = "end"]_vars

\* C17 witness: the worker is at out: again, running already DONE, after a
\* status query that failed
C17_Witness ==
    \E t \in Threads :
      wpc[t] = "out" /\ rq.end /\ running = ASYNC_THREAD_DONE /\ endLog = <<>>

\* C18 as claimed: with a producer configured the worker leaves the write
\* loop for ipc_end(rq->connfd) only after the producer returned a chunk of
\* length zero.
C18_Claim ==
    [][\A t \in Threads :
         (rq.wr /\ wpc[t] = "loop_cond" /\ wpc'[t] = "close_data") =>
            /\ Len(produced) > 0
            /\ produced[Len(produced)] = 0]_vars

\* C18 witness: at the loop condition after a first wake-up in which only the
\* notification channel was readable, the producer not yet called
C18_Witness ==
    \E t \in Threads :
      /\ wpc[t] = "loop_cond"
      /\ rq.wr
      /\ produced = <<>>
      /\ Len(received) > 0
      /\ size[t] = UNINIT

\* C19 as claimed: while the terminator is called the lifecycle state is
\* still ASYNC_THREAD_RUNNING.
C19_Claim ==
    \A t \in Threads :
      wpc[t] = "end" => running = ASYNC_THREAD_RUNNING

\* C19 amended: the worker sets running to ASYNC_THREAD_DONE when it arrives
\* at out:, before the status query and before the terminator; while the
\* terminator is called running is DONE, or RUNNING only because the starter
\* assigned it after the worker had set DONE.
C19_DoneBeforeTerminator ==
    /\ [][\A t \in Threads :
            (wpc[t] = "out" /\ wpc'[t] # "out") =>
               /\ running' = ASYNC_THREAD_DONE
               /\ endLog' = endLog
               /\ wpc'[t] = (IF rq.end THEN "get_status" ELSE "exit")]_vars
    /\ [][\A t \in Threads :
            (wpc[t] \in {"get_status", "end"}) =>
               \/ running = ASYNC_THREAD_DONE
               \/ /\ running = ASYNC_THREAD_RUNNING
                  /\ async_thread_id = t
                  /\ apc \in {"return", "idle"}]_vars
    /\ [][(endLog' # endLog /\ endLog' # <<>>) =>
            \E t \in Threads : wpc[t] = "end" /\ wpc'[t] = "exit"]_vars

\* C19 witness: the terminator is about to be called with running DONE
C19_Witness ==
    \E t \in Threads :
      wpc[t] = "end" /\ running = ASYNC_THREAD_DONE /\ ~failed

\* C23 as claimed: whenever the worker of the current session has finished
\* (and was not joined yet) running is ASYNC_THREAD_DONE, whatever the order
\* of the worker's DONE assignment and the starter's RUNNING assignment.
C23_Claim ==
    \A t \in Threads :
      (wpc[t] = "exited" /\ async_thread_id = t) =>
         running = ASYNC_THREAD_DONE

\* C23 witness: the worker has exited, running was left at RUNNING by the
\* starter's late assignment, and the next start has returned -EBUSY
C23_Witness ==
    /\ apc = "idle"
    /\ aret = <<-EBUSY>>
    /\ async_thread_id \in Threads
    /\ wpc[async_thread_id] = "exited"
    /\ running = ASYNC_THREAD_RUNNING

\* C24 as claimed: swupdate_async_start returns a non-negative result only
\* if this call created a worker thread; a call that went past the state
\* switch and created no worker (connect failed or pthread_create failed)
\* returns a negative result, with running ASYNC_THREAD_INIT and its data
\* connection not open.
C24_Claim ==
    [][IsReturn =>
         /\ aret'[1] >= 0 => wpc'[ncalls'] # "none"
         /\ (wpc'[ncalls'] = "none" /\ aret' # <<-EBUSY>>) =>
              /\ aret'[1] < 0
              /\ running' = ASYNC_THREAD_INIT
              /\ ncalls' \notin openData']_vars

\* C24 witness: pthread_create failed, the call has returned 0 and the data
\* connection it opened is still open
C24_Witness ==
    /\ apc = "idle"
    /\ aret = <<0>>
    /\ ncalls \in Threads
    /\ wpc[ncalls] = "none"
    /\ running = ASYNC_THREAD_INIT
    /\ ncalls \in openData

----------------------------------------------------------------------------
(***************************************************************************)
(* Claims about swupdate_set_aes.                                          *)
(***************************************************************************)

\* C7 as claimed: swupdate_set_aes sends SET_AES_KEY only for a key of 64 and
\* an IV of 32 characters; in every other case it returns -EINVAL and sends
\* nothing.
C7_Claim ==
    aesPc = "done" =>
      IF aesKey = <<AES_KEY_LEN>> /\ aesIvt = <<AES_IVT_LEN>>
      THEN aesSent = <<"SET_AES_KEY">>
      ELSE aesRet = <<-EINVAL>> /\ aesSent = <<>>

\* C7 witness: a call with a key of 64 and an IV of 32 characters was sent
C7_Witness ==
    /\ aesPc = "done"
    /\ aesKey = <<AES_KEY_LEN>>
    /\ aesIvt = <<AES_IVT_LEN>>
    /\ aesSent = <<"SET_AES_KEY">>

----------------------------------------------------------------------------
(***************************************************************************)
(* Claims about the pipe handler.                                          *)
(***************************************************************************)

\* the handler has returned, the subprocess was started, and no system call
\* failed for a reason of its own
PipeRanClean == ppc = "done" /\ privPid = "child" /\ ~ioError

\* the log of a subprocess that wrote lines 1 .. n, each once
LinesLogged(n) == [k \in 1..n |-> <<k>>]

\* C8 as claimed: for a subprocess that writes N complete lines to stdout,
\* reads its stdin to the end and exits 0, the handler has logged exactly
\* those N lines at TRACELEVEL, each once, and returns 0.
C8_Claim ==
    (PipeRanClean /\ cConsume /\ cStatus = [exited |-> TRUE, code |-> 0]) =>
      /\ traceLog = LinesLogged(cLines)
      /\ pret = <<0>>

\* C8 witness: such a subprocess wrote two lines and both were logged
C8_Witness ==
    /\ PipeRanClean
    /\ cConsume
    /\ cStatus = [exited |-> TRUE, code |-> 0]
    /\ cLines = 2
    /\ traceLog = LinesLogged(2)
    /\ pret = <<0>>

\* C9 as claimed: for a subprocess that exits with status 7, pipe_image
\* reports 7 (status 7 recorded, -7 returned), whatever it wrote before and
\* whether the copy phase or the final poll saw the exit.
C9_Claim ==
    (PipeRanClean /\ cStatus = [exited |-> TRUE, code |-> 7]) =>
      /\ privStatus = 7
      /\ pret = <<-7>>

\* C9 amended: for a subprocess that exits with status 7, pipe_poll_process
\* records status 7 when it reaps it, whatever the subprocess wrote before;
\* pipe_image returns -7 when the whole image was copied without error (the
\* final poll saw the exit), and otherwise returns the error of the copy,
\* which is negative.
C9_ExitStatus ==
    (PipeRanClean /\ cStatus = [exited |-> TRUE, code |-> 7]) =>
      /\ privStatus = 7
      /\ cpc = "reaped"
      /\ pret # NoRet
      /\ pret[1] < 0
      /\ chunksLeft = 0 => pret = <<-7>>

\* C9 witness: the exit with status 7 was seen in the copy phase, after the
\* subprocess had written two lines
C9_Witness ==
    /\ PipeRanClean
    /\ cStatus = [exited |-> TRUE, code |-> 7]
    /\ cLines = 2
    /\ chunksLeft > 0
    /\ privStatus = 7
    /\ pret = <<-7>>

\* C22 as claimed: when a pipe() fails pipe_image returns -EFAULT with every
\* pipe end closed; when fork() fails pipe_image returns an error with every
\* pipe end closed, without copying, polling or waiting for a process.
C22_Claim ==
    /\ (ppc = "done" /\ privPid = "none") =>
         (pfds = {} /\ pret = <<-EFAULT>>)
    /\ privPid = "failed" =>
         /\ ppc = "done"
         /\ pfds = {}
         /\ pret # NoRet
         /\ pret[1] < 0

\* C22 witness: pipe_image has returned -ECHILD after a failed fork, having
\* polled and called waitpid
C22_Witness ==
    /\ ppc = "done"
    /\ privPid = "failed"
    /\ pret = <<-ECHILD>>
    /\ pfds = {}

----------------------------------------------------------------------------
(***************************************************************************)
(* Claims about the mkswu lock.                                            *)
(***************************************************************************)

\* C10: at most one process at a time is between a successful return of
\* mkswu_lock and its next call of mkswu_unlock, and that process holds the
\* flock of the file LOCK_FILE names.
C10_MutualExclusion ==
    /\ Cardinality({p \in Procs : holding[p]}) <= 1
    /\ \A p \in Procs :
         holding[p] =>
           /\ lock_fd[p] = lockPath
           /\ lockPath # 0
           /\ flockOwner[lockPath] = p

\* C10 witness: one process holds the lock on a recreated lock file while
\* another has taken the flock of the unlinked one
C10_Witness ==
    \E p, q \in Procs :
      /\ p # q
      /\ holding[p]
      /\ lock_fd[q] \in Inodes
      /\ lock_fd[q] # lockPath
      /\ flockOwner[lock_fd[q]] = q

\* process q's call fails for a reason of the system (open, fstat or flock
\* failing, other than by an interruption)
SystemFailure(q) == lret[q] = <<1>> /\ lerrno[q] = EIO

\* the situation of C11 is over: the reboot marker appears, the first process
\* calls mkswu_lock again, or a third process takes part
C11_Over(p, q) ==
    \/ rebootFile
    \/ lpc[p] \notin {"unlink", "close", "idle"}
    \/ \E r \in Procs \ {p, q} : lpc[r] # "idle"

\* C11 as claimed: when process q tries the lock while p holds it, q does not
\* return but blocks; and once p has called mkswu_unlock, the blocked q
\* eventually returns success (unless a system call fails for a reason other
\* than an interruption).
C11_Claim ==
    /\ [][\A p, q \in Procs :
            (/\ p # q
             /\ holding[p]
             /\ lpc[q] = "flock_nb"
             /\ lock_fd[q] = lock_fd[p]
             /\ lpc'[q] # "flock_nb") =>
               (lpc'[q] = "flock_wait" \/ SystemFailure(q)')]_vars
    /\ \A p, q \in Procs :
         []((/\ p # q
             /\ lpc[q] = "flock_wait"
             /\ lpc[p] \in {"unlink", "close"}) =>
               <>(holding[q] \/ SystemFailure(q) \/ C11_Over(p, q)))

\* C11 witness: the process that was blocked holds the lock, on the file it
\* created after the first process had unlinked the old one
C11_Witness ==
    \E p, q \in Procs :
      /\ p # q
      /\ afterUnlock[p]
      /\ lpc[p] = "idle"
      /\ holding[q]
      /\ lock_fd[q] = 2

\* a step in which process p's mkswu_lock returns an error
LockFails(p) == lpc[p] \notin {"idle", "held"} /\ lpc'[p] = "idle" /\ lret'[p] = <<1>>

\* C12 as claimed: a mkswu_lock that follows the same process' mkswu_unlock
\* never enters the blocking flock and never returns an error (unless a
\* system call fails).
C12_Claim ==
    [][\A p \in Procs :
         afterUnlock[p] =>
           /\ lpc'[p] # "flock_wait"
           /\ LockFails(p) => lerrno'[p] = EIO]_vars

\* C12 amended: a mkswu_lock that follows the same process' mkswu_unlock
\* enters the blocking flock only if another process holds the flock of the
\* lock file at that moment; it returns an error only if a system call failed
\* or the blocking flock was interrupted.
C12_Reacquire ==
    [][\A p \in Procs :
         afterUnlock[p] =>
           /\ (lpc[p] = "flock_nb" /\ lpc'[p] = "flock_wait") =>
                \E q \in Procs \ {p} : flockOwner[lock_fd[p]] = q
           /\ (lpc[p] # "flock_wait" /\ lpc'[p] = "flock_wait") =>
                lpc[p] = "flock_nb"
           /\ LockFails(p) => lerrno'[p] \in {EIO, EINTR}
           /\ (LockFails(p) /\ lerrno'[p] = EINTR) => lpc[p] = "flock_wait"]_vars

\* C12 witness: a process holds the lock again after it had released it
C12_Witness ==
    \E p \in Procs :
      afterUnlock[p] /\ holding[p] /\ lret[p] = <<0>> /\ lpc[p] = "held"

\* C13: a process that finds the reboot marker once its lock is validated
\* stalls; a stalled process never returns, whether or not the marker is
\* removed, and keeps its descriptor and the flock.
C13_RebootStall ==
    /\ [][\A p \in Procs :
            (lpc[p] = "reboot" /\ rebootFile /\ lpc'[p] # "reboot") =>
              lpc'[p] = "stalled"]_vars
    /\ [][\A p \in Procs :
            lpc[p] = "stalled" =>
              /\ lpc'[p] = "stalled"
              /\ lret[p] = NoRet
              /\ lret'[p] = NoRet
              /\ lock_fd'[p] = lock_fd[p]
              /\ lock_fd[p] \in Inodes
              /\ flockOwner[lock_fd[p]] = p
              /\ flockOwner'[lock_fd[p]] = p]_vars

\* C13 witness: a process is stalled although the marker was removed again
C13_Witness ==
    \E p \in Procs : lpc[p] = "stalled" /\ ~rebootFile

\* C20: a process whose descriptor, once it has the flock, is not on the file
\* the path names (the path is missing or names another inode) closes the
\* descriptor, which drops the flock, and opens again without returning; and
\* mkswu_lock returns success only with its descriptor on the file the path
\* names.
C20_FileIdentity ==
    /\ [][\A p \in Procs :
            (/\ lpc[p] = "lstat"
             /\ (lockPath = 0 \/ lock_fd[p] # lockPath)
             /\ lpc'[p] # "lstat") =>
               /\ lpc'[p] = "open"
               /\ lock_fd'[p] = -1
               /\ flockOwner'[lock_fd[p]] # p
               /\ lret'[p] = NoRet
               /\ ~holding'[p]]_vars
    /\ [][\A p \in Procs :
            (lpc[p] # "held" /\ lpc'[p] = "held") =>
               /\ lret'[p] = <<0>>
               /\ lockPath' # 0
               /\ lock_fd'[p] = lockPath'
               /\ flockOwner'[lockPath'] = p]_vars

\* C20 witness: a process has the flock of an unlinked file and is about to
\* compare it with the file another process created at the path and locked
C20_Witness ==
    \E p, q \in Procs :
      /\ p # q
      /\ lpc[p] = "lstat"
      /\ lockPath \notin {0, lock_fd[p]}
      /\ flockOwner[lock_fd[p]] = p
      /\ flockOwner[lockPath] = q

\* C21 as claimed: a blocking flock that is interrupted (EINTR) is tried
\* again and mkswu_lock does not return; mkswu_lock returns an error from the
\* blocking path only after another failure, and then with the descriptor
\* closed, the flock not held and lock_fd = -1.
C21_Claim ==
    [][\A p \in Procs :
         (lpc[p] = "flock_wait" /\ lpc'[p] # "flock_wait") =>
            \/ lpc'[p] = "fstat"
            \/ /\ LockFails(p)
               /\ lerrno'[p] # EINTR
               /\ lock_fd'[p] = -1
               /\ flockOwner'[lock_fd[p]] # p
               /\ ~holding'[p]]_vars

\* C21 witness: mkswu_lock has returned 1 after an interrupted blocking flock
C21_Witness ==
    \E p \in Procs :
      /\ lpc[p] = "idle"
      /\ lret[p] = <<1>>
      /\ lerrno[p] = EINTR
      /\ lock_fd[p] = -1

----------------------------------------------------------------------------
(***************************************************************************)
(* Claims about the example client.                                        *)
(***************************************************************************)

\* C25 as claimed: once the worker started by a send_file call has invoked
\* end(), that send_file call eventually returns, whatever the order of the
\* worker's pthread_cond_signal and the main thread's pthread_cond_wait.
C25_Claim ==
    \A k \in 1..MaxFiles :
      (k \in endCalls) ~> (Len(sendRet) >= k)

\* C25 witness: end() has signalled and returned, the worker has exited, and
\* the main thread began to wait only afterwards
C25_Witness ==
    /\ mainPc = "waiting"
    /\ libPc = "exited"
    /\ nsent \in endCalls
    /\ Len(sendRet) < nsent

=============================================================================
